---- MODULE Spec2Model ----
(***************************************************************************)
(* Samplers of internlm/data: LuminaPickleSampler and its micro-batch      *)
(* wrapper LuminaPickleBatchSampler (lumina_pickle/sampler.py), and        *)
(* MockedSequentialBatchSampler (mocked/batch_sampler.py).                 *)
(*                                                                         *)
(* The numpy generator np.random.default_rng(seed + epoch) is modelled as  *)
(* an oracle: the first iteration under a key draws any outcome the        *)
(* generator could produce (any sample without replacement, any shuffle),  *)
(* and an iteration under the key of the previous one reads the same       *)
(* outcome again, as a generator seeded alike does.  shuffle is True       *)
(* throughout (False raises NotImplementedError at once).                  *)
(***************************************************************************)
EXTENDS Integers, Sequences, FiniteSets, TLC

VARIABLES
    single,       \* object -> LuminaPickleSampler fields, or None
    sref,         \* instance -> the sampler object it reaches (itself, or its
                  \* single_sampler), or NoRef while the instance does not exist
    batch,        \* instance -> LuminaPickleBatchSampler fields, or None
    ctorErr,      \* outcome of the construction-time assertion
    rngKey,       \* seed + epoch the stored generator outcome belongs to, -1: none
    picked,       \* __iter__: per partition, its (index, length) pairs after sampling
    indices,      \* __iter__: the flattened global sequence
    own_indices,  \* __iter__: this rank's share before the start_iter skip
    yielded,      \* what the last iteration of the sampler yielded
    batches,      \* what the last iteration of the batch sampler yielded
    err,          \* exception that ended the last call, "none" if it returned
    ran,          \* the last call: [op, inst, epoch, start_iter]
    last0,        \* the last un-resumed iteration: [key, out], or None
    mk,           \* instance -> MockedSequentialBatchSampler fields, or None
    mkIter,       \* instance -> start of its live generator's next step, -1: none
    mkYield,      \* instance -> what was observed of it: the counters it was
                  \* given (base_*), the batches and indices it yielded since,
                  \* the batches of its live generator (since_iter); or None
    mkLast        \* the last call on a mocked sampler: [op, inst, out]

vars == <<single, sref, batch, ctorErr, rngKey, picked, indices, own_indices, yielded,
          batches, err, ran, last0, mk, mkIter, mkYield, mkLast>>

luminaVars == <<single, sref, batch, ctorErr, rngKey, picked, indices, own_indices,
                yielded, batches, err, ran, last0>>

mockedVars == <<mk, mkIter, mkYield, mkLast>>

\* an absent object (where a record stands otherwise), an absent reference
None == [none |-> TRUE]
NoRef == "NoRef"

(***************************************************************************)
(* Bounds of the model.                                                    *)
(***************************************************************************)
MaxEpoch == 1        \* epochs 0..MaxEpoch
MaxStartIter == 2    \* start_iter 0..MaxStartIter
MaxN == 3            \* len(train_ds) of the mocked sampler
MaxMicroNum == 2     \* micro_num of the mocked sampler
MaxYield == 4        \* batches one mocked instance yields in a behaviour

\* seed: int = 0
DefaultSeed == 0
\* the neighbourhood of the length-clustered shuffle, in global batches
ClusterBlock == 500

\* The configurations and datasets the samplers are built from: every
\* combination of these.  A global sequence is at most four indices long, which
\* keeps the set of shuffles of one iteration enumerable.
MicroBatchSizes == {1, 2}
AccGrads == {1, 2}
WorldSizes == {1, 2}
PartitionLens == {1, 2}
\* the sizes of a partition that is alone in its meta list: three samples with
\* ratio 3/4 make a draw of two
SoloLens == {1, 2, 3}

Insts == {"s", "c"}
Types == {"text", "image"}
\* ratio as an exact fraction <<numerator, denominator>>; both are binary
\* fractions, so len * ratio is exact in floating point too
Ratios == {<<3, 4>>, <<1, 1>>}

(***************************************************************************)
(* Sequence helpers.                                                       *)
(***************************************************************************)
Min(a, b) == IF a <= b THEN a ELSE b

Range(s) == {s[i] : i \in DOMAIN s}

\* s[a:b] of Python for 0 <= a, 0 <= b
Slice(s, a, b) == SubSeq(s, a + 1, Min(b, Len(s)))

RECURSIVE Flatten(_)
Flatten(ss) == IF ss = <<>> THEN <<>> ELSE Head(ss) \o Flatten(Tail(ss))

\* every reordering of s
PermsOf(s) == {[i \in 1..Len(s) |-> s[p[i]]] : p \in Permutations(1..Len(s))}

\* [s[i : i + n] for i in range(0, len(s), n)]
Chunks(s, n) ==
    [c \in 1..((Len(s) + n - 1) \div n) |-> Slice(s, (c - 1) * n, c * n)]

\* every way to reorder each chunk of n elements of s in place
RECURSIVE BlockShuffles(_, _)
BlockShuffles(s, n) ==
    IF s = <<>> THEN {<<>>}
    ELSE {h \o t : h \in PermsOf(Slice(s, 0, n)),
                   t \in BlockShuffles(Slice(s, n, Len(s)), n)}

\* list.sort(key=lambda x: x[1]): stable, ascending by the pair's length
RECURSIVE SortByLen(_)
SortByLen(s) ==
    IF s = <<>> THEN <<>>
    ELSE LET init == SortByLen(SubSeq(s, 1, Len(s) - 1))
             x == s[Len(s)]
             k == Cardinality({i \in DOMAIN init : init[i][2] <= x[2]})
         IN  SubSeq(init, 1, k) \o <<x>> \o SubSeq(init, k + 1, Len(init))

\* a draw that may take a position twice (replace=True)
ChoicesWithReplacement(s, k) ==
    {[j \in 1..k |-> s[f[j]]] : f \in [1..k -> DOMAIN s]}

\* rng.choice(s, k, replace=False): k elements of s, no position drawn twice, in
\* any order; no outcome when k > len(s) (numpy raises ValueError)
Choices(s, k) ==
    {[j \in 1..k |-> s[f[j]]] :
        f \in {g \in [1..k -> DOMAIN s] :
                 \A a, b \in 1..k : a # b => g[a] # g[b]}}

(***************************************************************************)
(* The dataset collaborator: dataset.meta_list and len(dataset).           *)
(***************************************************************************)
\* item_len_list of a partition of n samples (distinct lengths, not sorted)
ItemLens(n) == [j \in 1..n |-> n - j + 1]

Meta(t, n, r) == [type |-> t, len |-> n, item_len_list |-> ItemLens(n), ratio |-> r]

Partitions == {Meta(t, n, r) : t \in Types, n \in PartitionLens, r \in Ratios}

SoloPartitions == {Meta("text", n, r) : n \in SoloLens, r \in Ratios}

\* meta lists of one or two partitions; the first label is "text" (labels are
\* only dictionary keys, so the other choice is the same up to renaming)
MetaLists ==
    {<<p>> : p \in SoloPartitions}
    \cup {<<p, q>> : p \in {q \in Partitions : q.type = "text"}, q \in Partitions}

\* len(dataset): the size of the global index space, the partitions concatenated
RECURSIVE DatasetLen(_)
DatasetLen(ml) == IF ml = <<>> THEN 0 ELSE Head(ml).len + DatasetLen(Tail(ml))

(***************************************************************************)
(* LuminaPickleSampler.__init__                                            *)
(***************************************************************************)
\* the product rounded up instead of truncated
IntLenRatioCeil(meta) ==
    (meta.len * meta.ratio[1] + meta.ratio[2] - 1) \div meta.ratio[2]

\* int(meta["len"] * meta.get("ratio", 1.0)) of line 91
IntLenRatio(meta) == (meta.len * meta.ratio[1]) \div meta.ratio[2]

\* val // global_bsz_acc * global_bsz_acc
AlignDown(val, global_bsz_acc) == (val \div global_bsz_acc) * global_bsz_acc

\* group_len[g] before the alignment: the loop of lines 90-91
RECURSIVE GroupLenRaw(_, _)
GroupLenRaw(ml, g) ==
    IF ml = <<>> THEN 0
    ELSE (IF Head(ml).type = g THEN IntLenRatio(Head(ml)) ELSE 0)
         + GroupLenRaw(Tail(ml), g)

\* the keys of a dictionary filled in meta_list order: labels by first appearance
RECURSIVE GroupNames(_)
GroupNames(ml) ==
    IF ml = <<>> THEN <<>>
    ELSE LET prev == GroupNames(SubSeq(ml, 1, Len(ml) - 1))
             t == ml[Len(ml)].type
         IN  IF t \in Range(prev) THEN prev ELSE Append(prev, t)

\* group_len of line 93
GroupLen(ml, g, global_bsz_acc) == AlignDown(GroupLenRaw(ml, g), global_bsz_acc)

RECURSIVE SumGroupLen(_, _, _)
SumGroupLen(ml, names, global_bsz_acc) ==
    IF names = <<>> THEN 0
    ELSE GroupLen(ml, Head(names), global_bsz_acc)
         + SumGroupLen(ml, Tail(names), global_bsz_acc)

\* self.total_size of line 95
TotalSize(ml, mbs, ws, acc) == SumGroupLen(ml, GroupNames(ml), mbs * ws * acc)

NewSampler(ds, mbs, acc, ws, rk, sd, lc, mixed) ==
    [dataset |-> ds, num_replicas |-> ws, rank |-> rk, seed |-> sd,
     micro_batch_size |-> mbs, acc_grad |-> acc,
     length_clustering |-> lc, allow_mixed_task_among_acc |-> mixed,
     epoch |-> 0, start_iter |-> 0,
     total_size |-> TotalSize(ds, mbs, ws, acc),
     num_samples |-> TotalSize(ds, mbs, ws, acc) \div ws]

\* assert self.total_size % self.num_replicas == 0 of line 96
CtorAssert(self) ==
    IF self.total_size % self.num_replicas = 0 THEN "none" ELSE "AssertionError"

(***************************************************************************)
(* LuminaPickleBatchSampler.__init__                                       *)
(***************************************************************************)
\* self.num_batches of line 28
NumBatches(ds, mbs, ws) == (DatasetLen(ds) \div mbs) \div ws

NewBatchSampler(ds, mbs, ws) ==
    [num_batches |-> NumBatches(ds, mbs, ws), micro_batch_size |-> mbs]

(***************************************************************************)
(* LuminaPickleSampler.__iter__                                            *)
(***************************************************************************)
\* start_idx of partition i: the lengths of the partitions before it
RECURSIVE StartIdx(_, _)
StartIdx(ml, i) == IF i = 1 THEN 0 ELSE StartIdx(ml, i - 1) + ml[i - 1].len

\* indices_and_len of partition i, lines 112-115
IndicesAndLen(ml, i) ==
    [j \in 1..ml[i].len |-> <<StartIdx(ml, i) + j - 1, ml[i].item_len_list[j]>>]

\* int(meta["len"] * meta["ratio"]) of line 117
SampleSize(meta) == (meta.len * meta.ratio[1]) \div meta.ratio[2]

\* what partition i may add to its group's list, lines 116-117
Subsamples(ml, i) ==
    IF ml[i].ratio[1] # ml[i].ratio[2]
    THEN Choices(IndicesAndLen(ml, i), SampleSize(ml[i]))
    ELSE {IndicesAndLen(ml, i)}

\* the choices of the whole loop of lines 110-122, partition by partition
RECURSIVE PickedUpTo(_, _)
PickedUpTo(ml, n) ==
    IF n = 0 THEN {<<>>}
    ELSE {Append(p, x) : p \in PickedUpTo(ml, n - 1), x \in Subsamples(ml, n)}

\* group_indices_and_len[g] after the loop: line 119, in meta_list order
RECURSIVE GroupList(_, _, _, _)
GroupList(ml, pk, g, n) ==
    IF n = 0 THEN <<>>
    ELSE GroupList(ml, pk, g, n - 1) \o (IF ml[n].type = g THEN pk[n] ELSE <<>>)

\* the group's list left as it is, the remainder kept
TruncatedNot(lst, global_bsz_acc) == lst

\* lines 124-127
Truncated(lst, global_bsz_acc) == Slice(lst, 0, AlignDown(Len(lst), global_bsz_acc))

FirstOf(lst) == [i \in 1..Len(lst) |-> lst[i][1]]

\* group_indices[g], lines 131-151
GroupOrders(self, lst) ==
    IF self.length_clustering
    THEN BlockShuffles(FirstOf(SortByLen(lst)),
                       self.micro_batch_size * self.num_replicas * ClusterBlock)
    ELSE {FirstOf(p) : p \in PermsOf(lst)}

\* sum(group_batched_indices[i : i + acc_grad], start=[]) for i in range(...)
MergeAcc(bs, acc_grad) ==
    [u \in 1..((Len(bs) + acc_grad - 1) \div acc_grad) |->
        Flatten(Slice(bs, (u - 1) * acc_grad, u * acc_grad))]

\* the group's micro-batches pooled whatever allow_mixed_task_among_acc says
GroupUnitsPooled(self, order) ==
    {Chunks(order, self.micro_batch_size * self.num_replicas)}

\* what one group adds to global_batched_indices, lines 155-172
GroupUnits(self, order) ==
    LET gbs == self.micro_batch_size * self.num_replicas
    IN  IF self.allow_mixed_task_among_acc
        THEN {Chunks(order, gbs)}
        ELSE {MergeAcc(b, self.acc_grad) : b \in PermsOf(Chunks(order, gbs))}

\* global_batched_indices before line 173, the groups in dictionary order
RECURSIVE GlobalBatched(_, _, _)
GlobalBatched(self, pk, names) ==
    IF names = <<>> THEN {<<>>}
    ELSE LET ml == self.dataset
             A == self.micro_batch_size * self.num_replicas * self.acc_grad
             lst == Truncated(GroupList(ml, pk, Head(names), Len(ml)), A)
             here == UNION {GroupUnits(self, o) : o \in GroupOrders(self, lst)}
         IN  {h \o t : h \in here, t \in GlobalBatched(self, pk, Tail(names))}

\* indices of line 174: every outcome of the shuffles
FlatSequences(self, pk) ==
    UNION {{Flatten(p) : p \in PermsOf(gb)} :
              gb \in GlobalBatched(self, pk, GroupNames(self.dataset))}

\* own_indices of lines 180-182, from start position pos on
RECURSIVE OwnFrom(_, _, _, _)
OwnFrom(ind, pos, mbs, stride) ==
    IF pos >= Len(ind) THEN <<>>
    ELSE Slice(ind, pos, pos + mbs) \o OwnFrom(ind, pos + stride, mbs, stride)

\* the stride taken as num_replicas, not num_replicas * micro_batch_size
OwnIndicesNoScale(self, ind) ==
    OwnFrom(ind, self.rank * self.micro_batch_size, self.micro_batch_size,
            self.num_replicas)

OwnIndices(self, ind) ==
    OwnFrom(ind, self.rank * self.micro_batch_size, self.micro_batch_size,
            self.num_replicas * self.micro_batch_size)

\* start_iter taken as a count of samples, not of micro-batches
ResumeNoScale(self, own) ==
    IF self.start_iter > Len(own) THEN <<>>
    ELSE Slice(own, self.start_iter, Len(own))

\* lines 187-190
Resume(self, own) ==
    IF self.start_iter * self.micro_batch_size > Len(own) THEN <<>>
    ELSE Slice(own, self.start_iter * self.micro_batch_size, Len(own))

\* lines 178-192 on the flat sequence ind: the two assertions, the share, the skip
IterOutcome(self, ind) ==
    IF Len(ind) # self.total_size
    THEN [err |-> "AssertionError", own |-> <<>>, out |-> <<>>]
    ELSE LET own == OwnIndices(self, ind)
         IN  IF Len(own) # self.num_samples
             THEN [err |-> "AssertionError", own |-> own, out |-> <<>>]
             ELSE [err |-> "none", own |-> own, out |-> Resume(self, own)]

(***************************************************************************)
(* LuminaPickleBatchSampler.__iter__                                       *)
(***************************************************************************)
\* lines 32-35 on the wrapped sampler's stream: num_batches times, mbs calls of
\* next(); a StopIteration inside the generator surfaces as RuntimeError, after
\* the complete batches before it were yielded
BatchOutcome(b, stream) ==
    LET mbs == b.micro_batch_size
    IN  IF b.num_batches * mbs <= Len(stream)
        THEN [err |-> "none",
              out |-> Chunks(Slice(stream, 0, b.num_batches * mbs), mbs)]
        ELSE [err |-> "RuntimeError",
              out |-> Chunks(Slice(stream, 0, (Len(stream) \div mbs) * mbs), mbs)]

(***************************************************************************)
(* copy(): copy.deepcopy(self), lines 40-41 and 211-212                    *)
(***************************************************************************)
\* a copy that hands back the source object itself
SharedRef(src, fresh) == src

\* the object the copy's reference points to: a fresh one, not the source
DeepCopyRef(src, fresh) == fresh

(***************************************************************************)
(* State machine of the Lumina samplers.                                   *)
(***************************************************************************)
Configs ==
    {NewSampler(ds, mbs, acc, ws, rk, DefaultSeed, lc, mixed) :
        ds \in MetaLists, mbs \in MicroBatchSizes, acc \in AccGrads,
        ws \in WorldSizes, rk \in {w - 1 : w \in WorldSizes},
        lc \in BOOLEAN, mixed \in BOOLEAN}

InitMockedIdle ==
    /\ mk = [i \in Insts |-> None]
    /\ mkIter = [i \in Insts |-> -1]
    /\ mkYield = [i \in Insts |-> None]
    /\ mkLast = [op |-> "none", inst |-> "s", out |-> <<>>]

\* one LuminaPickleBatchSampler "s" and the LuminaPickleSampler it wraps
InitLumina ==
    /\ \E self \in {c \in Configs : c.rank < c.num_replicas} :
         /\ single = [i \in Insts |-> IF i = "s" THEN self ELSE None]
         /\ batch = [i \in Insts |->
                       IF i = "s"
                       THEN NewBatchSampler(self.dataset, self.micro_batch_size,
                                            self.num_replicas)
                       ELSE None]
         /\ ctorErr = CtorAssert(self)
    /\ sref = [i \in Insts |-> IF i = "s" THEN "s" ELSE NoRef]
    /\ rngKey = -1
    /\ picked = <<>>
    /\ indices = <<>>
    /\ own_indices = <<>>
    /\ yielded = <<>>
    /\ batches = <<>>
    /\ err = "none"
    /\ ran = [op |-> "init", inst |-> "s", epoch |-> 0, start_iter |-> 0]
    /\ last0 = None

Init == InitLumina /\ InitMockedIdle

\* set_epoch(epoch, start_iter) on the sampler instance i reaches
SetEpoch(i, e, k) ==
    /\ sref[i] # NoRef
    /\ single' = [single EXCEPT ![sref[i]].epoch = e, ![sref[i]].start_iter = k]
    /\ ran' = [op |-> "set_epoch", inst |-> i, epoch |-> e, start_iter |-> k]
    /\ own_indices' = <<>>
    /\ yielded' = <<>>
    /\ batches' = <<>>
    /\ err' = "none"
    /\ UNCHANGED <<sref, batch, ctorErr, rngKey, picked, indices, last0>>
    /\ UNCHANGED mockedVars

\* every outcome <<picked, indices>> the generator can give lines 110-174 of
\* self; epoch and start_iter play no part in it (the key only selects one)
AllDraws(self) ==
    UNION {{<<pk, ind>> : ind \in FlatSequences(self, pk)} :
              pk \in PickedUpTo(self.dataset, Len(self.dataset))}

\* AllDraws, tabulated once per constructed sampler (@@ makes the table an
\* explicit one, evaluated once)
DrawTable == [self \in Configs |-> AllDraws(self)] @@ <<>>

\* the generator outcome of one __iter__ of self: the stored one under the same
\* key, any one otherwise
Draws(self) ==
    IF rngKey = self.seed + self.epoch
    THEN {<<picked, indices>>}
    ELSE DrawTable[[self EXCEPT !.epoch = 0, !.start_iter = 0]]

Last0After(self, res) ==
    IF res.err = "none" /\ self.start_iter = 0
    THEN [key |-> self.seed + self.epoch, out |-> res.out]
    ELSE IF rngKey = self.seed + self.epoch THEN last0 ELSE None

\* list(iter(sampler)) on the sampler instance i reaches
Iter(i) ==
    /\ sref[i] # NoRef
    /\ LET self == single[sref[i]]
       IN  \E d \in Draws(self) :
             LET res == IterOutcome(self, d[2])
             IN  /\ rngKey' = self.seed + self.epoch
                 /\ picked' = d[1]
                 /\ indices' = d[2]
                 /\ own_indices' = res.own
                 /\ yielded' = res.out
                 /\ err' = res.err
                 /\ batches' = <<>>
                 /\ ran' = [op |-> "iter", inst |-> i, epoch |-> self.epoch,
                            start_iter |-> self.start_iter]
                 /\ last0' = Last0After(self, res)
    /\ UNCHANGED <<single, sref, batch, ctorErr>>
    /\ UNCHANGED mockedVars

\* list(iter(batch_sampler)) on the batch sampler i
BatchIter(i) ==
    /\ batch[i] # None
    /\ LET self == single[sref[i]]
       IN  \E d \in Draws(self) :
             LET res == IterOutcome(self, d[2])
                 bo == BatchOutcome(batch[i], res.out)
             IN  /\ rngKey' = self.seed + self.epoch
                 /\ picked' = d[1]
                 /\ indices' = d[2]
                 /\ own_indices' = res.own
                 /\ yielded' = res.out
                 /\ err' = IF res.err # "none" THEN res.err ELSE bo.err
                 /\ batches' = IF res.err # "none" THEN <<>> ELSE bo.out
                 /\ ran' = [op |-> "batch_iter", inst |-> i, epoch |-> self.epoch,
                            start_iter |-> self.start_iter]
                 /\ last0' = Last0After(self, res)
    /\ UNCHANGED <<single, sref, batch, ctorErr>>
    /\ UNCHANGED mockedVars

\* c = s.copy() on the LuminaPickleSampler
CopySampler ==
    /\ sref["c"] = NoRef
    /\ single' = [single EXCEPT !["c"] = single[sref["s"]]]
    /\ sref' = [sref EXCEPT !["c"] = DeepCopyRef(sref["s"], "c")]
    /\ ran' = [op |-> "copy", inst |-> "c", epoch |-> single[sref["s"]].epoch,
               start_iter |-> single[sref["s"]].start_iter]
    /\ own_indices' = <<>>
    /\ yielded' = <<>>
    /\ batches' = <<>>
    /\ err' = "none"
    /\ UNCHANGED <<batch, ctorErr, rngKey, picked, indices, last0>>
    /\ UNCHANGED mockedVars

\* c = s.copy() on the LuminaPickleBatchSampler: the wrapped sampler is copied too
CopyBatchSampler ==
    /\ sref["c"] = NoRef
    /\ single' = [single EXCEPT !["c"] = single[sref["s"]]]
    /\ sref' = [sref EXCEPT !["c"] = DeepCopyRef(sref["s"], "c")]
    /\ batch' = [batch EXCEPT !["c"] = batch["s"]]
    /\ ran' = [op |-> "copy", inst |-> "c", epoch |-> single[sref["s"]].epoch,
               start_iter |-> single[sref["s"]].start_iter]
    /\ own_indices' = <<>>
    /\ yielded' = <<>>
    /\ batches' = <<>>
    /\ err' = "none"
    /\ UNCHANGED <<ctorErr, rngKey, picked, indices, last0>>
    /\ UNCHANGED mockedVars

\* one sampler through its epochs
Next ==
    \/ \E e \in 0..MaxEpoch, k \in 0..MaxStartIter : SetEpoch("s", e, k)
    \/ Iter("s")

Spec == Init /\ [][Next]_vars

\* the batch sampler through its epochs
NextBatch ==
    \/ \E e \in 0..MaxEpoch, k \in 0..MaxStartIter : SetEpoch("s", e, k)
    \/ BatchIter("s")

SpecBatch == Init /\ [][NextBatch]_vars

\* a sampler, its copy, and set_epoch on either
NextCopy ==
    \/ \E i \in Insts, e \in 0..MaxEpoch, k \in 0..MaxStartIter : SetEpoch(i, e, k)
    \/ CopySampler
    \/ CopyBatchSampler

SpecCopy == Init /\ [][NextCopy]_vars

(***************************************************************************)
(* MockedSequentialBatchSampler; train_ds is represented by len(train_ds). *)
(***************************************************************************)
NewMocked(n, m) ==
    [train_ds |-> n, micro_num |-> m, batch_count |-> 0,
     num_consumed_samples_in_epoch |-> 0]

StateDict(self) ==
    [batch_count |-> self.batch_count,
     num_consumed_samples_in_epoch |-> self.num_consumed_samples_in_epoch]

LoadStateDict(self, states) ==
    [self EXCEPT !.batch_count = states.batch_count,
                 !.num_consumed_samples_in_epoch =
                     states.num_consumed_samples_in_epoch]

MockedCopy(self) ==
    LoadStateDict(NewMocked(self.train_ds, self.micro_num), StateDict(self))

\* every batch counted as micro_num samples, the last short one too
MockedStepFullCount(self, start) ==
    LET end == Min(start + self.micro_num, self.train_ds)
    IN  [self |-> [self EXCEPT
                     !.batch_count = @ + 1,
                     !.num_consumed_samples_in_epoch = @ + self.micro_num],
         out |-> [j \in 1..(end - start) |-> start + j - 1]]

\* one pass of the loop body of __iter__, lines 16-19, at position start
MockedStep(self, start) ==
    LET end == Min(start + self.micro_num, self.train_ds)
    IN  [self |-> [self EXCEPT
                     !.batch_count = @ + 1,
                     !.num_consumed_samples_in_epoch = @ + (end - start)],
         out |-> [j \in 1..(end - start) |-> start + j - 1]]

Observed(self) ==
    [base_batches |-> self.batch_count,
     base_indices |-> self.num_consumed_samples_in_epoch,
     batches |-> 0, indices |-> 0, since_iter |-> 0]

InitLuminaIdle ==
    /\ single = [i \in Insts |-> None]
    /\ sref = [i \in Insts |-> NoRef]
    /\ batch = [i \in Insts |-> None]
    /\ ctorErr = "none"
    /\ rngKey = -1
    /\ picked = <<>>
    /\ indices = <<>>
    /\ own_indices = <<>>
    /\ yielded = <<>>
    /\ batches = <<>>
    /\ err = "none"
    /\ ran = [op |-> "none", inst |-> "s", epoch |-> 0, start_iter |-> 0]
    /\ last0 = None

\* the source sampler "s"; the second instance "c" comes later
InitMocked ==
    /\ \E n \in 0..MaxN, m \in 1..MaxMicroNum :
         /\ mk = [i \in Insts |-> IF i = "s" THEN NewMocked(n, m) ELSE None]
         /\ mkYield = [i \in Insts |->
                         IF i = "s" THEN Observed(NewMocked(n, m)) ELSE None]
    /\ mkIter = [i \in Insts |-> -1]
    /\ mkLast = [op |-> "new", inst |-> "s", out |-> <<>>]

InitMockedSpec == InitLuminaIdle /\ InitMocked

\* iter(sampler): a new generator, nothing of its body run yet
MkIterNew(i) ==
    /\ mk[i] # None
    /\ mkIter' = [mkIter EXCEPT ![i] = 0]
    /\ mkYield' = [mkYield EXCEPT ![i].since_iter = 0]
    /\ mkLast' = [op |-> "iter", inst |-> i, out |-> <<>>]
    /\ UNCHANGED mk
    /\ UNCHANGED luminaVars

\* next() on the live generator of i: one batch, or the end of the range
MkNext(i) ==
    /\ mk[i] # None
    /\ mkIter[i] >= 0
    /\ mkYield[i].batches < MaxYield
    /\ IF mkIter[i] < mk[i].train_ds
       THEN LET step == MockedStep(mk[i], mkIter[i])
            IN  /\ mk' = [mk EXCEPT ![i] = step.self]
                /\ mkIter' = [mkIter EXCEPT ![i] = @ + mk[i].micro_num]
                /\ mkYield' = [mkYield EXCEPT
                                 ![i].batches = @ + 1,
                                 ![i].indices = @ + Len(step.out),
                                 ![i].since_iter = @ + 1]
                /\ mkLast' = [op |-> "next", inst |-> i, out |-> step.out]
       ELSE /\ mkIter' = [mkIter EXCEPT ![i] = -1]
            /\ mkLast' = [op |-> "stop", inst |-> i, out |-> <<>>]
            /\ UNCHANGED <<mk, mkYield>>
    /\ UNCHANGED luminaVars

\* c = MockedSequentialBatchSampler(train_ds, m): a second instance
MkConstruct(m) ==
    /\ mk["c"] = None
    /\ mk' = [mk EXCEPT !["c"] = NewMocked(mk["s"].train_ds, m)]
    /\ mkIter' = [mkIter EXCEPT !["c"] = -1]
    /\ mkYield' = [mkYield EXCEPT !["c"] = Observed(NewMocked(mk["s"].train_ds, m))]
    /\ mkLast' = [op |-> "new", inst |-> "c", out |-> <<>>]
    /\ UNCHANGED luminaVars

\* c.load_state_dict(s.state_dict())
MkLoad ==
    /\ mk["c"] # None
    /\ mk' = [mk EXCEPT !["c"] = LoadStateDict(mk["c"], StateDict(mk["s"]))]
    /\ mkYield' = [mkYield EXCEPT
                     !["c"] = [Observed(mk'["c"]) EXCEPT
                                 !.since_iter = mkYield["c"].since_iter]]
    /\ mkLast' = [op |-> "load", inst |-> "c", out |-> <<>>]
    /\ UNCHANGED mkIter
    /\ UNCHANGED luminaVars

\* c = s.copy()
MkCopy ==
    /\ mk' = [mk EXCEPT !["c"] = MockedCopy(mk["s"])]
    /\ mkIter' = [mkIter EXCEPT !["c"] = -1]
    /\ mkYield' = [mkYield EXCEPT !["c"] = Observed(mk'["c"])]
    /\ mkLast' = [op |-> "copy", inst |-> "c", out |-> <<>>]
    /\ UNCHANGED luminaVars

NextMocked ==
    \/ \E i \in Insts : MkIterNew(i)
    \/ \E i \in Insts : MkNext(i)
    \/ \E m \in 1..MaxMicroNum : MkConstruct(m)
    \/ MkLoad
    \/ MkCopy

SpecMocked == InitMockedSpec /\ [][NextMocked]_vars

(***************************************************************************)
(* Properties.                                                             *)
(***************************************************************************)
\* the sampler the last call was made on
Called == single[sref[ran.inst]]

\* the share lines 180-182 give rank r of the sampler for the sequence ind
ShareOf(self, ind, r) == OwnIndices([self EXCEPT !.rank = r], ind)

NoRepeat(s) == \A a, b \in DOMAIN s : a # b => s[a] # s[b]

\* the type label of the partition that holds global index idx
TypeOf(ml, idx) ==
    LET i == CHOOSE j \in DOMAIN ml :
                 StartIdx(ml, j) <= idx /\ idx < StartIdx(ml, j) + ml[j].len
    IN  ml[i].type

OneType(ml, s) == \A a, b \in Range(s) : TypeOf(ml, a) = TypeOf(ml, b)

\* s without its first n elements
Drop(s, n) == IF n >= Len(s) THEN <<>> ELSE SubSeq(s, n + 1, Len(s))

\* C1: after an iteration with start_iter = 0 the shares of ranks
\* 0..world_size-1 are an equal-size partition of the global sequence: each has
\* num_samples = total_size / world_size elements, none repeats an index, no
\* two share one, together they hold total_size indices; the call yields its
\* own rank's share.
C1_SharesPartition ==
    (ran.op = "iter" /\ ran.start_iter = 0) =>
        LET self == Called
            ranks == 0..(self.num_replicas - 1)
        IN  /\ err = "none"
            /\ self.num_samples * self.num_replicas = self.total_size
            /\ yielded = ShareOf(self, indices, self.rank)
            /\ \A r \in ranks :
                 /\ Len(ShareOf(self, indices, r)) = self.num_samples
                 /\ NoRepeat(ShareOf(self, indices, r))
            /\ \A r1, r2 \in ranks :
                 r1 # r2 => Range(ShareOf(self, indices, r1))
                              \cap Range(ShareOf(self, indices, r2)) = {}
            /\ Cardinality(UNION {Range(ShareOf(self, indices, r)) : r \in ranks})
                 = self.total_size

\* two ranks, micro-batches of two, a global sequence of four indices shared out
C1_Witness ==
    /\ ran.op = "iter" /\ ran.start_iter = 0 /\ err = "none"
    /\ Called.num_replicas = 2 /\ Called.micro_batch_size = 2
    /\ Len(indices) = 4 /\ Len(yielded) = 2

\* C2: with allow_mixed_task_among_acc false and start_iter = 0, in every
\* rank's share each micro-batch (run of micro_batch_size indices) and each
\* accumulation unit (run of acc_grad micro-batches) holds indices of partitions
\* with one and the same type label.
C2_Homogeneity ==
    (ran.op = "iter" /\ ran.start_iter = 0 /\ err = "none"
        /\ ~Called.allow_mixed_task_among_acc) =>
        LET self == Called
            ml == self.dataset
        IN  \A r \in 0..(self.num_replicas - 1) :
              LET share == ShareOf(self, indices, r)
              IN  /\ \A c \in Range(Chunks(share, self.micro_batch_size)) :
                       OneType(ml, c)
                  /\ \A u \in Range(Chunks(share,
                                 self.micro_batch_size * self.acc_grad)) :
                       OneType(ml, u)

\* a share with accumulation units of two micro-batches, of both types
C2_Witness ==
    /\ ran.op = "iter" /\ ran.start_iter = 0 /\ err = "none"
    /\ ~Called.allow_mixed_task_among_acc
    /\ Called.acc_grad = 2
    /\ Len(yielded) = 4
    /\ \E a, b \in Range(yielded) :
         TypeOf(Called.dataset, a) # TypeOf(Called.dataset, b)

\* C5: an iteration after set_epoch(epoch, k) yields what the iteration after
\* set_epoch(epoch, 0) yielded (same seed, epoch, rank, dataset) without its
\* first k * micro_batch_size elements; nothing, and no error, when
\* k * micro_batch_size reaches the share's length.
C5_Resume ==
    (ran.op = "iter") =>
        /\ err = "none"
        /\ (last0 # None /\ last0.key = rngKey) =>
             /\ yielded = Drop(last0.out, ran.start_iter * Called.micro_batch_size)
             /\ (ran.start_iter * Called.micro_batch_size >= Len(last0.out)
                    => yielded = <<>>)

\* a resumed iteration that skips one micro-batch of two and still yields some
C5_Witness ==
    /\ ran.op = "iter" /\ ran.start_iter = 1 /\ err = "none"
    /\ last0 # None /\ last0.key = rngKey
    /\ Called.micro_batch_size = 2
    /\ Len(last0.out) = 4 /\ Len(yielded) = 2

\* round(n / d) of Python: to the nearest integer, a tie to the even one
RoundHalfEven(n, d) ==
    LET q == n \div d
        twice == 2 * (n % d)
    IN  IF twice < d THEN q
        ELSE IF twice > d THEN q + 1
        ELSE IF q % 2 = 0 THEN q ELSE q + 1

\* the pairs partition i added are distinct pairs of its own index range
FromOwnRange(ml, pk, i) ==
    /\ NoRepeat(pk[i])
    /\ \A x \in Range(pk[i]) :
         /\ StartIdx(ml, i) <= x[1] /\ x[1] < StartIdx(ml, i) + ml[i].len
         /\ x[2] = ml[i].item_len_list[x[1] - StartIdx(ml, i) + 1]

\* C6 as stated: a partition with ratio r # 1.0 adds exactly round(len * r)
\* pairs to its group's list, distinct, of its own index range.
C6_RoundedCount ==
    (ran.op = "iter") =>
        \A i \in DOMAIN Called.dataset :
            LET meta == Called.dataset[i]
            IN  meta.ratio[1] # meta.ratio[2] =>
                  /\ Len(picked[i])
                       = RoundHalfEven(meta.len * meta.ratio[1], meta.ratio[2])
                  /\ FromOwnRange(Called.dataset, picked, i)

\* C6 amended: a partition with ratio r # 1.0 adds exactly floor(len * r) pairs
\* (int() truncates) to its group's list, distinct, of its own index range.
C6_TruncatedCount ==
    (ran.op = "iter") =>
        \A i \in DOMAIN Called.dataset :
            LET meta == Called.dataset[i]
            IN  meta.ratio[1] # meta.ratio[2] =>
                  /\ Len(picked[i]) * meta.ratio[2] <= meta.len * meta.ratio[1]
                  /\ (Len(picked[i]) + 1) * meta.ratio[2] > meta.len * meta.ratio[1]
                  /\ FromOwnRange(Called.dataset, picked, i)

\* a partition of three samples with ratio 3/4 that added two pairs
C6_Witness ==
    /\ ran.op = "iter"
    /\ \E i \in DOMAIN Called.dataset :
         /\ Called.dataset[i].ratio = <<3, 4>>
         /\ Called.dataset[i].len = 3
         /\ Len(picked[i]) = 2
         /\ picked[i][1] # picked[i][2]

\* the labels of the meta list
Labels(ml) == {ml[i].type : i \in DOMAIN ml}

\* sum of f[i] over the partitions of type g, the first n of them
RECURSIVE SumOver(_, _, _, _)
SumOver(ml, g, f, n) ==
    IF n = 0 THEN 0
    ELSE SumOver(ml, g, f, n - 1) + (IF ml[n].type = g THEN f[n] ELSE 0)

RECURSIVE SumSet(_, _)
SumSet(S, f) ==
    IF S = {} THEN 0
    ELSE LET x == CHOOSE y \in S : TRUE IN f[x] + SumSet(S \ {x}, f)

\* a common denominator of the ratios of the meta list
RECURSIVE DenProduct(_)
DenProduct(ml) == IF ml = <<>> THEN 1 ELSE Head(ml).ratio[2] * DenProduct(Tail(ml))

\* floor(S_g / A) * A for S_g the sum of len_i * ratio_i, nothing rounded
ExactCount(ml, g, A) ==
    LET D == DenProduct(ml)
        num == [i \in DOMAIN ml |->
                  ml[i].len * ml[i].ratio[1] * (D \div ml[i].ratio[2])]
    IN  (SumOver(ml, g, num, Len(ml)) \div (D * A)) * A

\* floor(T_g / A) * A for T_g the sum of floor(len_i * ratio_i)
FlooredCount(ml, g, A) ==
    LET part == [i \in DOMAIN ml |-> (ml[i].len * ml[i].ratio[1]) \div ml[i].ratio[2]]
    IN  (SumOver(ml, g, part, Len(ml)) \div A) * A

\* C7 as stated: every group's count is floor(S_g / A) * A, S_g the sum of
\* len_i * ratio_i before any rounding, A = micro_batch_size * world_size *
\* acc_grad, and total_size is the sum of the counts.
C7_ExactSum ==
    \A i \in {j \in Insts : single[j] # None} :
        LET self == single[i]
            ml == self.dataset
            A == self.micro_batch_size * self.num_replicas * self.acc_grad
        IN  /\ \A g \in Labels(ml) : GroupLen(ml, g, A) = ExactCount(ml, g, A)
            /\ self.total_size
                 = SumSet(Labels(ml), [g \in Labels(ml) |-> ExactCount(ml, g, A)])

\* C7 amended: every group's count is floor(T_g / A) * A, T_g the sum over the
\* group's partitions of floor(len_i * ratio_i), each product truncated before
\* it is added; total_size is the sum of the counts.
C7_FlooredSum ==
    \A i \in {j \in Insts : single[j] # None} :
        LET self == single[i]
            ml == self.dataset
            A == self.micro_batch_size * self.num_replicas * self.acc_grad
        IN  /\ \A g \in Labels(ml) : GroupLen(ml, g, A) = FlooredCount(ml, g, A)
            /\ self.total_size
                 = SumSet(Labels(ml), [g \in Labels(ml) |-> FlooredCount(ml, g, A)])

\* a group of two partitions with len * ratio = 1.5 each, and a count of 2
C7_Witness ==
    /\ single["s"] # None
    /\ Len(single["s"].dataset) = 2
    /\ \A i \in 1..2 :
         /\ single["s"].dataset[i].type = "text"
         /\ single["s"].dataset[i].len = 2
         /\ single["s"].dataset[i].ratio = <<3, 4>>
    /\ single["s"].total_size = 2

\* C3: the batch sampler's length num_batches is num_samples // micro_batch_size
\* of the sampler it wraps.
C3_NumBatches ==
    \A i \in {j \in Insts : batch[j] # None} :
        batch[i].num_batches
          = single[sref[i]].num_samples \div batch[i].micro_batch_size

\* C4: an iteration of the batch sampler ends without an error, whatever the
\* dataset and start_iter, and yields only lists of micro_batch_size indices.
C4_BatchIterEnds ==
    (ran.op = "batch_iter") =>
        /\ err = "none"
        /\ \A b \in Range(batches) : Len(b) = batch[ran.inst].micro_batch_size

\* C8: a copy has the source's fields (epoch, start_iter, seed, configuration)
\* when it is made, and set_epoch on the copy leaves the source's fields as they
\* are, set_epoch on the source the copy's.
C8_CloneIndependent ==
    [][/\ (ran'.op = "copy" /\ sref["c"] = NoRef /\ sref'["c"] # NoRef) =>
            /\ single'[sref'["c"]] = single[sref["s"]]
            /\ single'[sref'["s"]] = single[sref["s"]]
            /\ (batch'["c"] # None => batch'["c"] = batch["s"])
       /\ (sref["c"] # NoRef /\ ran'.op = "set_epoch" /\ ran'.inst = "c") =>
            single'[sref'["s"]] = single[sref["s"]]
       /\ (sref["c"] # NoRef /\ ran'.op = "set_epoch" /\ ran'.inst = "s") =>
            single'[sref'["c"]] = single[sref["c"]]
      ]_vars

\* a copy whose epoch and start_iter were set away from the source's
C8_Witness ==
    /\ sref["c"] # NoRef
    /\ ran.op = "set_epoch" /\ ran.inst = "c"
    /\ single[sref["c"]].epoch # single[sref["s"]].epoch
    /\ single[sref["c"]].start_iter # single[sref["s"]].start_iter

\* C9: the source's batch_count is the number of batches it yielded so far and
\* num_consumed_samples_in_epoch the number of indices; a second instance has
\* exactly the source's two counters after load_state_dict(state_dict()) or
\* copy(), and counts on from them; every batch is the contiguous run
\* [start, min(start + micro_num, N)), start = 0 for the first batch of each new
\* iteration whatever the counters are.
C9_Counters ==
    /\ mk["s"] # None =>
         /\ mk["s"].batch_count = mkYield["s"].batches
         /\ mk["s"].num_consumed_samples_in_epoch = mkYield["s"].indices
    /\ \A i \in {j \in Insts : mk[j] # None} :
         /\ mk[i].batch_count = mkYield[i].base_batches + mkYield[i].batches
         /\ mk[i].num_consumed_samples_in_epoch
              = mkYield[i].base_indices + mkYield[i].indices
    /\ mkLast.op \in {"load", "copy"} =>
         /\ StateDict(mk["c"]) = StateDict(mk["s"])
         /\ mkYield["c"].base_batches = mk["s"].batch_count
         /\ mkYield["c"].base_indices = mk["s"].num_consumed_samples_in_epoch
    /\ mkLast.op = "next" =>
         LET self == mk[mkLast.inst]
             start == (mkYield[mkLast.inst].since_iter - 1) * self.micro_num
             end == IF start + self.micro_num <= self.train_ds
                    THEN start + self.micro_num ELSE self.train_ds
         IN  /\ start < self.train_ds
             /\ mkLast.out = [j \in 1..(end - start) |-> start + j - 1]

\* a second instance given non-zero counters yields the first batch of a new
\* iteration, a short one
C9_Witness ==
    /\ mk["c"] # None
    /\ mkYield["c"].base_batches >= 2
    /\ mkLast.op = "next" /\ mkLast.inst = "c"
    /\ mkYield["c"].since_iter = 1
    /\ Len(mkLast.out) = 1 /\ mk["c"].micro_num = 2

\* C10: the size computed at construction and the sequence built by each
\* iteration agree: the flattened sequence has total_size elements, so neither
\* the assertion after the flatten nor the one at construction fails.
C10_SizesAgree ==
    /\ ctorErr = "none"
    /\ \A i \in {j \in Insts : single[j] # None} :
         single[i].total_size % single[i].num_replicas = 0
    /\ (ran.op = "iter") =>
         /\ err = "none"
         /\ Len(indices) = Called.total_size

\* an iteration where sampling and the alignment both dropped samples
C10_Witness ==
    /\ ran.op = "iter" /\ err = "none"
    /\ \E i \in DOMAIN Called.dataset : Len(picked[i]) < Called.dataset[i].len
    /\ Len(indices) > 0
    /\ Len(indices) < Len(Flatten(picked))

====
